---------------------------- MODULE Spec2Model ----------------------------
(***************************************************************************)
(* A model of portable-pedump: the RVA resolver (findRVASection,           *)
(* addrFromRVA), the export and import directory walks of                  *)
(* portable_pe_dump.cpp and the Visual C++ name demangler of               *)
(* cxx_demangle.cpp.                                                       *)
(*                                                                         *)
(* Conventions.  A std::string is a sequence of one-character strings; a   *)
(* position in it is 1-based and the end iterator of s is Len(s) + 1.      *)
(* A uint32_t is a number modulo WordMod, a uintptr_t a number modulo      *)
(* ptrMod (the host's pointer width, chosen by the build).  The file       *)
(* buffer is an array of cells; one cell holds one object the code         *)
(* overlays on the bytes (a number, a string, a structure), and sizeof of  *)
(* every object is one cell.                                               *)
(***************************************************************************)
EXTENDS Integers, Sequences, FiniteSets, TLC

VARIABLES
    pc,            \* position of the program
    sections,      \* the section table of the NT header
    imageBase,     \* address of the file buffer (dosHeaderPtr)
    ptrMod,        \* 2^(width of uintptr_t) on the host that runs the tool
    rva,           \* the resolver's query
    sectHeader,    \* findRVASection's result: index of the section, 0 = nullptr
    addr,          \* addrFromRVA's result
    mangledName,   \* demangle's first argument
    baseNameOnly,  \* demangle's second argument
    demangled,     \* demangle's outcome
    optionalHeader,\* numberOfRvaAndSizes and the data directories
    file,          \* the cells of the file buffer, file[1] at offset 0
    prog,          \* main's ProgramFlags
    iLoop,         \* the loop counter i of the running walk
    funcNames,     \* dumpExportsSection's vector of FName
    thunk,         \* dumpImportsSection's thunk pointer
    thunkIAT,      \* dumpImportsSection's thunkIAT pointer
    symbolsTotal,  \* dumpImportsSection's counter
    out,           \* what was written to std::cout, in order
    trace          \* what was read and translated, in order

vars == <<pc, sections, imageBase, ptrMod, rva, sectHeader, addr,
          mangledName, baseNameOnly, demangled,
          optionalHeader, file, prog, iLoop, funcNames, thunk, thunkIAT, symbolsTotal,
          out, trace>>

resolverVars == <<sections, imageBase, ptrMod, rva, sectHeader, addr>>
demangleVars == <<mangledName, baseNameOnly, demangled>>
imageVars == <<optionalHeader, file, prog>>
walkVars == <<iLoop, funcNames, thunk, thunkIAT, symbolsTotal, out, trace>>

---------------------------------------------------------------------------
(* Bounds.                                                                 *)

\* Width of the model's uint32_t, in bits.
WordBits == 8
\* Section fields and queries are drawn from 0..EdgeSpan and from the
\* EdgeSpan values just below WordMod.
EdgeSpan == 1
\* Number of entries of a drawn section table.
MaxSections == 2
\* Length of the exhaustively enumerated mangled names.
MaxLen == 4
\* numberOfFunctions of a drawn export directory.
MaxFuncs == 3
\* Largest numberOfNames of a drawn export directory.
MaxNames == 2
\* Largest number of import descriptors before the terminating one.
MaxModules == 2
\* Largest number of thunks before the terminating one.
MaxThunks == 2

WordMod == 2 ^ WordBits
HalfWord == WordMod \div 2

\* a mod m for any integer a and m > 0
Wrap(a, m) == ((a % m) + m) % m

---------------------------------------------------------------------------
(* Address resolver                                                        *)

\* The least index of s \in 1..n with P, as the linear scan finds it.
RECURSIVE ScanSections(_, _, _)
ScanSections(a, sects, s) ==
    IF s > Len(sects) THEN 0
    ELSE IF /\ a >= sects[s].virtualAddress
            /\ a < Wrap(sects[s].virtualAddress + sects[s].virtualSize, WordMod)
         THEN s
         ELSE ScanSections(a, sects, s + 1)

RECURSIVE ScanSectionsInclusive(_, _, _)
ScanSectionsInclusive(a, sects, s) ==
    IF s > Len(sects) THEN 0
    ELSE IF /\ a >= sects[s].virtualAddress
            /\ a <= Wrap(sects[s].virtualAddress + sects[s].virtualSize, WordMod)
         THEN s
         ELSE ScanSectionsInclusive(a, sects, s + 1)

\* findRVASection with the upper end of the range included
findRVASectionInclusive(a, sects) == ScanSectionsInclusive(a, sects, 1)

findRVASection(a, sects) == ScanSections(a, sects, 1)

\* delta is a uint32_t; imageBase + rva - delta is evaluated in uintptr_t.
addrFromRVA(a, sects, base, pmod) ==
    LET s == findRVASection(a, sects) IN
    IF s = 0 THEN 0
    ELSE LET delta == Wrap(sects[s].virtualAddress - sects[s].pointerToRawData, WordMod)
         IN  Wrap(base + a - delta, pmod)

---------------------------------------------------------------------------
(* Name demangler                                                          *)

\* What *end() of the std::string reads where the library does not check.
NUL == "NUL"

getCallConv(code) ==
    CASE code = "A" -> <<"_","_","c","d","e","c","l"," "," "," ">>
      [] code = "I" -> <<"_","_","f","a","s","t","c","a","l","l">>
      [] code = "E" -> <<"_","_","t","h","i","s","c","a","l","l">>
      [] code = "G" -> <<"_","_","s","t","d","c","a","l","l"," ">>
      [] OTHER -> <<>>

getTypeName(code) ==
    CASE code = "C" -> <<"s","i","g","n","e","d"," ","c","h","a","r"," "," "," ">>
      [] code = "D" -> <<"c","h","a","r"," "," "," "," "," "," "," "," "," "," ">>
      [] code = "E" -> <<"u","n","s","i","g","n","e","d"," ","c","h","a","r"," ">>
      [] code = "F" -> <<"s","h","o","r","t"," "," "," "," "," "," "," "," "," ">>
      [] code = "G" -> <<"u","n","s","i","g","n","e","d"," ","s","h","o","r","t">>
      [] code = "H" -> <<"i","n","t"," "," "," "," "," "," "," "," "," "," "," ">>
      [] code = "I" -> <<"u","n","s","i","g","n","e","d"," ","i","n","t"," "," ">>
      [] code = "J" -> <<"l","o","n","g"," "," "," "," "," "," "," "," "," "," ">>
      [] code = "K" -> <<"u","n","s","i","g","n","e","d"," ","l","o","n","g"," ">>
      [] code = "M" -> <<"f","l","o","a","t"," "," "," "," "," "," "," "," "," ">>
      [] code = "N" -> <<"d","o","u","b","l","e"," "," "," "," "," "," "," "," ">>
      [] code = "O" -> <<"l","o","n","g"," ","d","o","u","b","l","e"," "," "," ">>
      [] code = "P" -> <<"v","o","i","d","*"," "," "," "," "," "," "," "," "," ">>
      [] code = "Q" -> <<"v","o","i","d","[","]"," "," "," "," "," "," "," "," ">>
      [] code = "U" -> <<"s","t","r","u","c","t","*"," "," "," "," "," "," "," ">>
      [] code = "V" -> <<"c","l","a","s","s","*"," "," "," "," "," "," "," "," ">>
      [] code = "X" -> <<"v","o","i","d"," "," "," "," "," "," "," "," "," "," ">>
      [] code = "Z" -> <<".",".","."," "," "," "," "," "," "," "," "," "," "," ">>
      [] OTHER -> <<>>

\* std::isalpha in the C locale
Letters ==
    {"A","B","C","D","E","F","G","H","I","J","K","L","M","N","O","P","Q","R","S",
     "T","U","V","W","X","Y","Z","a","b","c","d","e","f","g","h","i","j","k","l",
     "m","n","o","p","q","r","s","t","u","v","w","x","y","z"}

isalpha(c) == c \in Letters

\* A Range is [start, end): two positions of the mangled name.
makeStr(s, r) == SubSeq(s, r.start, r.end - 1)

length(r) == r.end - r.start

\* std::find(start, end, c)
RECURSIVE find(_, _, _, _)
find(s, start, end, c) ==
    IF start >= end THEN end
    ELSE IF s[start] = c THEN start
    ELSE find(s, start + 1, end, c)

\* std::find_if(start, end, not one of skip)
RECURSIVE findNotIn(_, _, _, _)
findNotIn(s, start, end, skip) ==
    IF start >= end THEN end
    ELSE IF s[start] \notin skip THEN start
    ELSE findNotIn(s, start + 1, end, skip)

\* *iter: inside the string its character, at the end iterator what the
\* unchecked library reads there.
deref(s, iter) == IF iter <= Len(s) THEN s[iter] ELSE NUL

endOfNameSection(s, r, theEnd) ==
    IF r.end = theEnd \/ r.end + 1 = theEnd THEN TRUE
    ELSE IF s[r.end] = "@" /\ s[r.end + 1] = "@" THEN TRUE
    ELSE FALSE

extractSubName(s, start, end) == [start |-> start, end |-> find(s, start, end, "@")]

\* demangleCFunc that keeps the leading '_' or '@'
demangleCFuncKeepPrefix(s, rMangled) ==
    makeStr(s, extractSubName(s, rMangled.start, rMangled.end)) \o <<"(", ")">>

demangleCFunc(s, rMangled) ==
    LET nameStart == IF s[rMangled.start] = "_" \/ s[rMangled.start] = "@"
                     THEN rMangled.start + 1 ELSE rMangled.start
    IN  makeStr(s, extractSubName(s, nameStart, rMangled.end)) \o <<"(", ")">>

\* The calling convention and return type both demangleClass and
\* demangleCppFunc read after the name: from is where the scan starts, skip
\* the characters find_if passes over.  endRead: the end iterator was
\* dereferenced.
callConvAndRetType(s, from, mangledNameEnd, skip) ==
    LET iter == findNotIn(s, from, mangledNameEnd, skip) IN
    IF iter = mangledNameEnd
    THEN [callConv |-> <<>>, retType |-> <<>>, endRead |-> FALSE]
    ELSE LET cc    == getCallConv(s[iter])
             iter1 == iter + 1
             iter2 == IF deref(s, iter1) = "_" THEN iter1 + 1 ELSE iter1
             rt    == getTypeName(deref(s, iter2))
         IN  [callConv |-> IF cc # <<>> THEN cc \o <<" ">> ELSE cc,
              retType  |-> IF rt # <<>> THEN rt \o <<" ">> ELSE rt,
              endRead  |-> iter1 = mangledNameEnd \/ iter2 = mangledNameEnd]

demangleClass(s, rClassName, rFuncName, mangledNameEnd, bno) ==
    LET className ==
            IF /\ length(rClassName) >= 2
               /\ s[rClassName.start] = "?"
               /\ s[rClassName.start + 1] = "$"
            THEN SubSeq(s, rClassName.start + 2, rClassName.end - 1) \o <<"<", "T", ">">>
            ELSE makeStr(s, rClassName)
        t == IF bno THEN [callConv |-> <<>>, retType |-> <<>>, endRead |-> FALSE]
             ELSE callConvAndRetType(s, rClassName.end, mangledNameEnd,
                                     {"@", "Q", "S", "2"})
    IN  [str |-> t.retType \o t.callConv \o className \o <<":", ":">>
                 \o makeStr(s, rFuncName) \o <<"(", ")">>,
         endRead |-> t.endRead]

\* demangleCppFunc that reads the two codes in base mode as well
demangleCppFuncWithCodes(s, rFuncName, mangledNameEnd, bno) ==
    LET t == callConvAndRetType(s, rFuncName.end, mangledNameEnd, {"@", "Y"})
    IN  [str |-> t.retType \o t.callConv \o makeStr(s, rFuncName) \o <<"(", ")">>,
         endRead |-> t.endRead]

demangleCppFunc(s, rFuncName, mangledNameEnd, bno) ==
    LET t == IF bno THEN [callConv |-> <<>>, retType |-> <<>>, endRead |-> FALSE]
             ELSE callConvAndRetType(s, rFuncName.end, mangledNameEnd, {"@", "Y"})
    IN  [str |-> t.retType \o t.callConv \o makeStr(s, rFuncName) \o <<"(", ")">>,
         endRead |-> t.endRead]

\* The first position i of funcName with funcName[i] a letter or a digit
RECURSIVE firstAlnum(_, _)
firstAlnum(funcName, i) ==
    IF i > Len(funcName) THEN i
    ELSE IF funcName[i] # "_"
            /\ (isalpha(funcName[i])
                \/ funcName[i] \in {"0", "1", "2", "3", "4", "5", "6", "7", "8", "9"})
         THEN i
    ELSE firstAlnum(funcName, i + 1)

\* The first position i of funcName with funcName[i] a letter, or its end.
RECURSIVE firstAlpha(_, _)
firstAlpha(funcName, i) ==
    IF i > Len(funcName) THEN i
    ELSE IF funcName[i] # "_" /\ isalpha(funcName[i]) THEN i
    ELSE firstAlpha(funcName, i + 1)

\* demangleSpecial with the constructor and destructor cases exchanged
demangleSpecialSwapped(s, rFuncName, rClassName) ==
    LET hasClassName == length(rClassName) > 0
        c0        == s[rFuncName.start + 1]
        className == makeStr(s, rClassName)
        funcName  == SubSeq(s, rFuncName.start + 2, rFuncName.end - 1)
        q         == IF hasClassName THEN className \o <<":", ":">> ELSE <<>>
    IN  CASE c0 = "1" -> q \o funcName \o <<":", ":">> \o funcName \o <<"(", ")">>
          [] c0 = "0" -> q \o funcName \o <<":", ":", "~">> \o funcName \o <<"(", ")">>
          [] OTHER    -> q \o funcName \o <<":", ":", "?", "?", "?">>

\* demangleSpecial that puts the class qualifier in front in every case
demangleSpecialQualified(s, rFuncName, rClassName) ==
    LET c0        == s[rFuncName.start + 1]
        className == makeStr(s, rClassName)
        funcName  == SubSeq(s, rFuncName.start + 2, rFuncName.end - 1)
    IN  CASE c0 = "0" ->
               className \o <<":", ":">> \o funcName \o <<":", ":">> \o funcName \o <<"(", ")">>
          [] c0 = "1" ->
               className \o <<":", ":">> \o funcName \o <<":", ":", "~">> \o funcName \o <<"(", ")">>
          [] c0 = "4" ->
               className \o <<":", ":">> \o funcName
               \o <<":", ":", "o", "p", "e", "r", "a", "t", "o", "r", "=", "(", ")">>
          [] OTHER ->
               className \o <<":", ":">>
               \o SubSeq(funcName, firstAlpha(funcName, 1), Len(funcName))
               \o <<":", ":", "?", "?", "?">>

demangleSpecial(s, rFuncName, rClassName) ==
    LET hasClassName == length(rClassName) > 0
        c0        == s[rFuncName.start + 1]
        className == makeStr(s, rClassName)
        funcName  == SubSeq(s, rFuncName.start + 2, rFuncName.end - 1)
    IN  CASE c0 = "0" ->
               IF hasClassName
               THEN className \o <<":", ":">> \o funcName \o <<":", ":">> \o funcName \o <<"(", ")">>
               ELSE funcName \o <<":", ":">> \o funcName \o <<"(", ")">>
          [] c0 = "1" ->
               IF hasClassName
               THEN className \o <<":", ":">> \o funcName \o <<":", ":", "~">> \o funcName \o <<"(", ")">>
               ELSE funcName \o <<":", ":", "~">> \o funcName \o <<"(", ")">>
          [] c0 = "4" ->
               IF hasClassName
               THEN className \o <<":", ":">> \o funcName
                    \o <<":", ":", "o", "p", "e", "r", "a", "t", "o", "r", "=", "(", ")">>
               ELSE funcName \o <<":", ":", "o", "p", "e", "r", "a", "t", "o", "r", "=", "(", ")">>
          [] OTHER ->
               className \o <<":", ":">>
               \o SubSeq(funcName, firstAlpha(funcName, 1), Len(funcName))
               \o <<":", ":", "?", "?", "?">>

\* demangle: the string it returns where no end iterator is checked, and
\* whether it dereferenced the end iterator on the way.
demangle(s, bno) ==
    IF s = <<>> THEN [str |-> s, endRead |-> FALSE]
    ELSE
    LET theEnd   == Len(s) + 1
        rMangled == [start |-> 1, end |-> theEnd]
    IN
    IF s[1] # "?" THEN [str |-> demangleCFunc(s, rMangled), endRead |-> FALSE]
    ELSE
    LET rFuncName  == extractSubName(s, 2, theEnd)
        rClassName == IF ~endOfNameSection(s, rFuncName, theEnd)
                      THEN extractSubName(s, rFuncName.end + 1, theEnd)
                      ELSE [start |-> theEnd, end |-> theEnd]
        rNamespaceName == IF ~endOfNameSection(s, rClassName, theEnd)
                          THEN extractSubName(s, rClassName.end + 1, theEnd)
                          ELSE [start |-> theEnd, end |-> theEnd]
        d == IF length(rFuncName) >= 2 /\ s[rFuncName.start] = "?"
             THEN [str |-> demangleSpecial(s, rFuncName, rClassName), endRead |-> FALSE]
             ELSE IF length(rClassName) > 0
                  THEN demangleClass(s, rClassName, rFuncName, theEnd, bno)
                  ELSE demangleCppFunc(s, rFuncName, theEnd, bno)
    IN  IF length(rNamespaceName) > 0
        THEN [str |-> makeStr(s, rNamespaceName) \o <<":", ":">> \o d.str,
              endRead |-> d.endRead]
        ELSE d

\* The outcomes of one call.  Dereferencing the end iterator of a
\* std::string is undefined: an unchecked library reads the terminator, a
\* checked one (debug or hardened iterators) stops the program.
demangleOutcomes(s, bno) ==
    LET d == demangle(s, bno) IN
    {[status |-> "returned", str |-> d.str]}
    \cup (IF d.endRead THEN {[status |-> "trapped", str |-> <<>>]} ELSE {})


---------------------------------------------------------------------------
(* The file buffer                                                         *)

Num(v) == [k |-> "num", v |-> v]
Str(s) == [k |-> "str", s |-> s]
Pad == [k |-> "pad"]

\* The cell the pointer p points to.  A pointer outside the buffer, the
\* null pointer among them, points to no cell.
InBuffer(p) == p >= imageBase /\ p - imageBase < Len(file)
cellAt(p) == IF InBuffer(p) THEN file[p - imageBase + 1] ELSE [k |-> "none"]

\* Whether reading an object of kind k at p stays with what the file holds
\* there.
Readable(p, k) == cellAt(p).k = k

\* base + (rva - delta), the subtraction in uint32_t, the sum in uintptr_t
ptrFromDelta(a, delta) == Wrap(imageBase + Wrap(a - delta, WordMod), ptrMod)

sectionDelta(s) ==
    Wrap(sections[s].virtualAddress - sections[s].pointerToRawData, WordMod)

---------------------------------------------------------------------------
(* Formatting                                                              *)

HexDigit == <<"0","1","2","3","4","5","6","7","8","9","A","B","C","D","E","F">>

RECURSIVE hexDigits(_)
hexDigits(val) ==
    IF val < 16 THEN <<HexDigit[val + 1]>>
    ELSE hexDigits(val \div 16) \o <<HexDigit[(val % 16) + 1]>>

RECURSIVE zeroPad(_, _)
zeroPad(digits, pad) ==
    IF Len(digits) >= pad THEN digits ELSE zeroPad(<<"0">> \o digits, pad)

\* sprintf("0x%0*X", pad, val)
toHexa(val, pad) == <<"0", "x">> \o zeroPad(hexDigits(val), pad)

truncate(str) ==
    IF Len(str) > 60 THEN SubSeq(str, 1, 56) \o <<".", ".", ".">> ELSE str

\* The characters of the names, in the order of their codes.
CharsByCode ==
    <<" ", "$", "(", ")", "*", ".", "0", "1", "2", "3", "4", "5", "6", "7", "8", "9",
      ":", "<", "=", ">", "?", "@",
      "A","B","C","D","E","F","G","H","I","J","K","L","M","N","O","P","Q","R","S",
      "T","U","V","W","X","Y","Z", "[", "]", "_",
      "a","b","c","d","e","f","g","h","i","j","k","l","m","n","o","p","q","r","s",
      "t","u","v","w","x","y","z", "~">>

charCode == [c \in {CharsByCode[n] : n \in 1 .. Len(CharsByCode)} |->
                CHOOSE n \in 1 .. Len(CharsByCode) : CharsByCode[n] = c]

\* a < b for std::string
RECURSIVE stringLess(_, _)
stringLess(a, b) ==
    IF b = <<>> THEN FALSE
    ELSE IF a = <<>> THEN TRUE
    ELSE IF charCode[Head(a)] # charCode[Head(b)] THEN charCode[Head(a)] < charCode[Head(b)]
    ELSE stringLess(Tail(a), Tail(b))

---------------------------------------------------------------------------
(* dumpExportsSection                                                      *)

exportsStartRVA == optionalHeader.dataDirectory[1].virtualAddress
exportsEndRVA ==
    Wrap(exportsStartRVA + optionalHeader.dataDirectory[1].sizeInBytes, WordMod)

exportsDelta == sectionDelta(findRVASection(exportsStartRVA, sections))
exportDirectory(delta) == cellAt(ptrFromDelta(exportsStartRVA, delta))

\* functions[n], names[n], ordinals[n] and the string at an RVA, all of them
\* through delta, the delta of the section that holds the directory
functionsAt(dir, delta, n) == cellAt(ptrFromDelta(dir.addressOfFunctions, delta) + n).v
namesAt(dir, delta, n) == cellAt(ptrFromDelta(dir.addressOfNames, delta) + n).v
ordinalsAt(dir, delta, n) == cellAt(ptrFromDelta(dir.addressOfNameOrdinals, delta) + n).v
exportString(delta, a) == cellAt(ptrFromDelta(a, delta)).s

FName(ord, mangled) ==
    [ord |-> ord, mangled |-> truncate(mangled), demangled |-> demangle(mangled, TRUE).str]

\* The inner loop: the names of function slot n, from name j on.
RECURSIVE namesOfSlot(_, _, _, _)
namesOfSlot(dir, delta, n, j) ==
    IF j >= dir.numberOfNames THEN <<>>
    ELSE (IF ordinalsAt(dir, delta, j) = n
          THEN <<FName(toHexa(ordinalsAt(dir, delta, j), 3) \o <<" ">>,
                       exportString(delta, namesAt(dir, delta, j)))>>
          ELSE <<>>)
         \o namesOfSlot(dir, delta, n, j + 1)

\* the forwarder test with the end of the directory left out
isForwarderBelowEnd(entryPointRVA) ==
    entryPointRVA >= exportsStartRVA /\ entryPointRVA < exportsEndRVA

\* the forwarder test with its two bounds exchanged
isForwarderBoundsSwapped(entryPointRVA) ==
    entryPointRVA >= exportsEndRVA /\ entryPointRVA <= exportsStartRVA

isForwarder(entryPointRVA) ==
    entryPointRVA >= exportsStartRVA /\ entryPointRVA <= exportsEndRVA

\* One iteration of the loop over the function slots.
recordsOfSlot(dir, delta, n) ==
    LET entryPointRVA == functionsAt(dir, delta, n) IN
    IF entryPointRVA = 0 THEN <<>>
    ELSE namesOfSlot(dir, delta, n, 0)
         \o (IF isForwarder(entryPointRVA)
             THEN <<FName(<<"F", "W", "D", " ">>, exportString(delta, entryPointRVA))>>
             ELSE <<>>)

\* The sequences seq with x put where it keeps seq sorted by demangled.
insertions(x, seq) ==
    {SubSeq(seq, 1, n) \o <<x>> \o SubSeq(seq, n + 1, Len(seq)) :
        n \in {m \in 0 .. Len(seq) :
                 /\ \A l \in 1 .. m : ~stringLess(x.demangled, seq[l].demangled)
                 /\ \A l \in m + 1 .. Len(seq) : ~stringLess(seq[l].demangled, x.demangled)}}

\* std::sort replaced by nothing: the records stay as they were met
sortOutcomesUnsorted(seq) == {seq}

\* What std::sort may leave: every arrangement of the records in which no
\* record is followed by one with a lesser demangled name.  std::sort
\* promises no order among records that compare equal.
RECURSIVE sortOutcomes(_)
sortOutcomes(seq) ==
    IF seq = <<>> THEN {<<>>}
    ELSE UNION {insertions(Head(seq), rest) : rest \in sortOutcomes(Tail(seq))}

\* the test of numberOfRvaAndSizes left out
noRvaAndSizesUnchecked == FALSE

noRvaAndSizes == optionalHeader.numberOfRvaAndSizes = 0

ExportsBegin ==
    /\ pc = "exports"
    /\ IF noRvaAndSizes
       THEN /\ out' = Append(out, [line |-> "Can't list exports! Number of RVAs is zero.",
                                   stream |-> "cout"])
            /\ pc' = "exportsDone"
            /\ UNCHANGED <<iLoop, funcNames, trace>>
       ELSE IF findRVASection(exportsStartRVA, sections) = 0
       THEN /\ out' = Append(out, [line |-> "No exports found.", stream |-> "cout"])
            /\ pc' = "exportsDone"
            /\ UNCHANGED <<iLoop, funcNames, trace>>
       ELSE LET delta == exportsDelta
                dir   == exportDirectory(delta)
            IN  /\ out' = Append(out, [line |-> "Listing exports from",
                                       section |-> findRVASection(exportsStartRVA, sections),
                                       name |-> exportString(delta, dir.nameRVA),
                                       numberOfFunctions |-> dir.numberOfFunctions,
                                       numberOfNames |-> dir.numberOfNames,
                                       ordinalBase |-> dir.ordinalBase])
                /\ iLoop' = 0
                /\ funcNames' = <<>>
                /\ trace' = <<[op |-> "exportDir", at |-> ptrFromDelta(exportsStartRVA, delta)]>>
                /\ pc' = "exportSlots"
    /\ UNCHANGED <<thunk, thunkIAT, symbolsTotal>>
    /\ UNCHANGED <<resolverVars, demangleVars, imageVars>>

ExportSlot ==
    /\ pc = "exportSlots"
    /\ LET delta == exportsDelta
           dir   == exportDirectory(delta)
           found == recordsOfSlot(dir, delta, iLoop)
       IN  /\ iLoop < dir.numberOfFunctions
           /\ funcNames' = funcNames \o found
           /\ trace' = trace \o [n \in 1 .. Len(found) |->
                                    [op |-> "emplace_back", slot |-> iLoop,
                                     fname |-> found[n]]]
    /\ iLoop' = iLoop + 1
    /\ UNCHANGED <<pc, thunk, thunkIAT, symbolsTotal, out>>
    /\ UNCHANGED <<resolverVars, demangleVars, imageVars>>

\* The loop is over: sort, print the rows, print the total.
ExportsSortAndPrint ==
    /\ pc = "exportSlots"
    /\ ~(iLoop < exportDirectory(exportsDelta).numberOfFunctions)
    /\ funcNames' \in sortOutcomes(funcNames)
    /\ out' = out \o [n \in 1 .. Len(funcNames) |-> [row |-> funcNames'[n]]]
                  \o <<[line |-> "exports located and resolved.", count |-> Len(funcNames)]>>
    /\ pc' = "exportsDone"
    /\ UNCHANGED <<iLoop, thunk, thunkIAT, symbolsTotal, trace>>
    /\ UNCHANGED <<resolverVars, demangleVars, imageVars>>

---------------------------------------------------------------------------
(* dumpImportsSection                                                      *)

importsStartRVA == optionalHeader.dataDirectory[2].virtualAddress
importsDelta == sectionDelta(findRVASection(importsStartRVA, sections))

\* importDesc[n]
importDesc(n) == cellAt(ptrFromDelta(importsStartRVA, importsDelta) + n)

\* the string at an RVA, through the delta of the section of the directory
importString(a) == cellAt(ptrFromDelta(a, importsDelta)).s

nullImpDesc ==
    [k |-> "importDesc", impByNameRVA |-> 0, timeDateStamp |-> 0,
     forwarderChain |-> 0, nameRVA |-> 0, firstThunkRVA |-> 0]

\* the terminator recognised by its name field alone
isNullImportDescriptorByName(impDesc) == impDesc.nameRVA = 0

\* memcmp with a zeroed descriptor
isNullImportDescriptor(impDesc) == impDesc = nullImpDesc

\* v & 0x8000000000000000, the flag of a 64-bit thunk
isOrdinalThunkFlag64(v) == (v \div (WordMod * HalfWord)) % 2 = 1

\* v & 0x80000000
isOrdinalThunk(v) == (v \div HalfWord) % 2 = 1

\* v & 0xFFFF, the low half of the word
lowHalf(v) == v % (2 ^ (WordBits \div 2))

Unknown == <<"?", "?", "?">>

ImportsBegin ==
    /\ pc = "imports"
    /\ IF findRVASection(importsStartRVA, sections) = 0
       THEN /\ out' = Append(out, [line |-> "No imports found."])
            /\ pc' = "importsDone"
            /\ UNCHANGED <<iLoop, trace>>
       ELSE /\ out' = Append(out, [line |-> "Listing imports from",
                                   section |-> findRVASection(importsStartRVA, sections)])
            /\ iLoop' = 0
            /\ trace' = <<>>
            /\ pc' = "importModules"
    /\ UNCHANGED <<funcNames, thunk, thunkIAT, symbolsTotal>>
    /\ UNCHANGED <<resolverVars, demangleVars, imageVars>>

\* One test of the first loop, and its body: the list of the modules.
ListModule ==
    /\ pc = "importModules"
    /\ trace' = Append(trace, [op |-> "importDesc", index |-> iLoop])
    /\ IF isNullImportDescriptor(importDesc(iLoop))
       THEN /\ iLoop' = 0
            /\ symbolsTotal' = 0
            /\ pc' = "importSymbols"
            /\ UNCHANGED out
       ELSE /\ out' = Append(out, [module |-> importString(importDesc(iLoop).nameRVA)])
            /\ iLoop' = iLoop + 1
            /\ UNCHANGED <<pc, symbolsTotal>>
    /\ UNCHANGED <<funcNames, thunk, thunkIAT>>
    /\ UNCHANGED <<resolverVars, demangleVars, imageVars>>

\* the address table taken whatever the name table is
thunkSourceAddressTable(d) == d.firstThunkRVA

\* The RVA of the thunks of a module: impByNameRVA, or firstThunkRVA when
\* that is zero.
thunkSource(d) == IF d.impByNameRVA = 0 THEN d.firstThunkRVA ELSE d.impByNameRVA

\* One test of the second loop, and its body up to the loop over the thunks.
\* The trace gets the read of the descriptor and, for a module, the RVA
\* taken for its thunks and the RVAs handed to addrFromRVA.
NextModule ==
    /\ pc = "importSymbols"
    /\ LET d       == importDesc(iLoop)
           dllName == importString(d.nameRVA)
           source  == thunkSource(d)
           read    == [op |-> "importDesc", index |-> iLoop]
           module(resolved) == [op |-> "module", index |-> iLoop, source |-> source,
                                resolved |-> resolved, symbols |-> symbolsTotal]
       IN  IF isNullImportDescriptor(d)
           THEN /\ out' = Append(out, [line |-> "dependencies located and resolved",
                                       dependencies |-> iLoop, symbols |-> symbolsTotal])
                /\ trace' = Append(trace, read)
                /\ pc' = "importsDone"
                /\ UNCHANGED <<iLoop, thunk, thunkIAT>>
           ELSE IF source = 0
           THEN /\ out' = out \o <<[dll |-> dllName],
                                   [line |-> "Bad IAT! Skipping imports for", name |-> dllName]>>
                /\ trace' = trace \o <<read, module({})>>
                /\ iLoop' = iLoop + 1
                /\ UNCHANGED <<pc, thunk, thunkIAT>>
           ELSE IF addrFromRVA(source, sections, imageBase, ptrMod) = 0
           THEN /\ out' = out \o <<[dll |-> dllName],
                                   [line |-> "Can't find IAT! Skipping imports for",
                                    name |-> dllName]>>
                /\ trace' = trace \o <<read, module({source})>>
                /\ iLoop' = iLoop + 1
                /\ UNCHANGED <<pc, thunk, thunkIAT>>
           ELSE /\ out' = Append(out, [dll |-> dllName])
                /\ trace' = trace \o <<read, module({source, d.firstThunkRVA})>>
                /\ thunk' = addrFromRVA(source, sections, imageBase, ptrMod)
                /\ thunkIAT' = addrFromRVA(d.firstThunkRVA, sections, imageBase, ptrMod)
                /\ pc' = "importThunks"
                /\ UNCHANGED iLoop
    /\ UNCHANGED <<funcNames, symbolsTotal>>
    /\ UNCHANGED <<resolverVars, demangleVars, imageVars>>

\* What one pass of the loop over the thunks does with a non-zero thunk:
\* the row it prints, what it hands to addrFromRVA and what it reads as an
\* ImageImportByName.
thunkRecord(v) ==
    IF isOrdinalThunk(v)
    THEN [op |-> "thunk", value |-> v, ordinalOnly |-> TRUE,
          translated |-> {}, dereferenced |-> {},
          row |-> [ord |-> toHexa(lowHalf(v), 4), name |-> Unknown]]
    ELSE LET addrImportName == addrFromRVA(v, sections, imageBase, ptrMod)
             importName     == cellAt(addrImportName)
         IN  [op |-> "thunk", value |-> v, ordinalOnly |-> FALSE,
              translated |-> {v}, dereferenced |-> {addrImportName},
              row |-> IF importName.k = "importByName"
                      THEN [ord |-> toHexa(importName.ordinalHint, 4),
                            name |-> demangle(importName.funcName, TRUE).str]
                      ELSE [unspecified |-> TRUE]]

\* thunk += sizeof(pe::ImageThunkData)
advance(p) == Wrap(p + 1, ptrMod)

\* the counter moved for the named symbols only
symbolsAfterNamedOnly(total, record) == IF record.ordinalOnly THEN total ELSE total + 1

\* ++symbolsTotal, at the end of a pass that printed the row of record
symbolsAfter(total, record) == total + 1

\* One pass of the loop over the thunks.  Reading an ImageImportByName where
\* the buffer holds none (at the null pointer addrFromRVA returned) is
\* undefined: the program is stopped, or prints what it finds there.
NextThunk ==
    /\ pc = "importThunks"
    /\ LET v == cellAt(thunk).v IN
       IF v = 0
       THEN /\ trace' = Append(trace, [op |-> "endOfThunks", at |-> thunk])
            /\ iLoop' = iLoop + 1
            /\ pc' = "importSymbols"
            /\ UNCHANGED <<thunk, thunkIAT, symbolsTotal, out>>
       ELSE /\ trace' = Append(trace, [at |-> thunk] @@ thunkRecord(v))
            /\ \/ /\ out' = Append(out, [row |-> thunkRecord(v).row])
                  /\ thunk' = advance(thunk)
                  /\ thunkIAT' = advance(thunkIAT)
                  /\ symbolsTotal' = symbolsAfter(symbolsTotal, thunkRecord(v))
                  /\ UNCHANGED <<pc, iLoop>>
               \/ /\ "unspecified" \in DOMAIN thunkRecord(v).row
                  /\ pc' = "crashed"
                  /\ UNCHANGED <<thunk, thunkIAT, symbolsTotal, out, iLoop>>
    /\ UNCHANGED funcNames
    /\ UNCHANGED <<resolverVars, demangleVars, imageVars>>

---------------------------------------------------------------------------
(* The inputs the specifications draw from                                 *)

\* Values at both edges of the uint32_t range.
EdgeWords == (0 .. EdgeSpan) \cup {WordMod - k : k \in 1 .. EdgeSpan}

SectionHeaders ==
    [virtualAddress : EdgeWords, virtualSize : EdgeWords,
     pointerToRawData : {0, WordMod - 1}]

SectionTables == UNION {[1 .. n -> SectionHeaders] : n \in 0 .. MaxSections}

\* The buffer loadFile allocated: any address but the null pointer.
BufferAddress == HalfWord

\* uintptr_t is as wide as uint32_t on a 32-bit host, twice as wide on a
\* 64-bit one.
PointerModuli == {WordMod, WordMod * WordMod}

Alphabet == {"?", "@", "_", "$", "0", "1", "E", "Q"}

ShortNames == UNION {[1 .. n -> Alphabet] : n \in 0 .. MaxLen}

Bar == <<"B", "a", "r">>
Foo == <<"F", "o", "o">>
Widget == <<"W", "i", "d", "g", "e", "t">>

FuncSegments ==
    {<<>>, <<"f">>, Bar, <<"?">>, <<"?", "0">>, <<"?", "0">> \o Widget,
     <<"?", "1">> \o Widget, <<"?", "4">> \o Widget, <<"?", "0", "W">>,
     <<"?", "1", "W">>, <<"?", "4", "W">>, <<"?", "9", "_", "1", "W">>,
     <<"?", "A", "W">>, <<"?", "2", "3", "_">>}

ClassParts ==
    {<<>>, <<"@", "C">>, <<"@">> \o Widget, <<"@", "?", "$", "V">>, <<"@", "?", "$">>}

NamespaceParts == {<<>>, <<"@", "N">>, <<"@", "n", "s">>, <<"@", "E", "X">>}

Tails ==
    {<<>>, <<"@">>, <<"@", "@">>,
     <<"@", "@", "Q", "A", "E", "X", "X", "Z">>,
     <<"@", "@", "Y", "A", "X", "X", "Z">>,
     <<"@", "@", "A">>, <<"@", "@", "A", "_">>,
     <<"@", "@", "Q", "E", "_", "X">>, <<"@", "@", "Y", "G", "_">>,
     <<"@", "@", "Q", "A", "E", "@", "X", "Z">>,
     <<"@", "@", "S", "A", "_", "N", "X", "Z">>}

\* Names with the layout ?func[@class][@namespace]tail
DecoratedNames ==
    {<<"?">> \o f \o c \o n \o t :
        f \in FuncSegments, c \in ClassParts, n \in NamespaceParts, t \in Tails}

CNames ==
    {<<"_">> \o Foo \o <<"@", "4">>, Foo, <<"@">> \o Foo \o <<"@", "8">>,
     <<"_", "_">> \o Foo, <<"_">> \o Foo \o <<"@", "@", "4">>}

MangledNames == ShortNames \cup DecoratedNames \cup CNames

---------------------------------------------------------------------------
(* The resolver, queried on its own                                        *)

\* The flags -e and -i of the command line; the other dumps are not asked for.
ProgramFlags(e, i) == [flagDumpExportsSection |-> e, flagDumpImportsSection |-> i]

NoDemangle ==
    /\ mangledName = <<>>
    /\ baseNameOnly = TRUE
    /\ demangled = [status |-> "none", str |-> <<>>]

NoWalk ==
    /\ optionalHeader = [numberOfRvaAndSizes |-> 0, dataDirectory |-> <<>>]
    /\ file = <<>>
    /\ prog = ProgramFlags(FALSE, FALSE)
    /\ iLoop = 0
    /\ funcNames = <<>>
    /\ thunk = 0
    /\ thunkIAT = 0
    /\ symbolsTotal = 0
    /\ out = <<>>
    /\ trace = <<>>

NoResolver ==
    /\ sections = <<>>
    /\ imageBase = BufferAddress
    /\ ptrMod = WordMod
    /\ rva = 0
    /\ sectHeader = 0
    /\ addr = 0

InitResolver ==
    /\ pc = "query"
    /\ sections \in SectionTables
    /\ imageBase = BufferAddress
    /\ ptrMod \in PointerModuli
    /\ rva \in EdgeWords
    /\ sectHeader = 0
    /\ addr = 0
    /\ NoDemangle
    /\ NoWalk

FindRVASection ==
    /\ pc = "query"
    /\ sectHeader' = findRVASection(rva, sections)
    /\ pc' = "found"
    /\ UNCHANGED <<sections, imageBase, ptrMod, rva, addr>>
    /\ UNCHANGED <<demangleVars, imageVars, walkVars>>

AddrFromRVA ==
    /\ pc = "query"
    /\ sectHeader' = findRVASection(rva, sections)
    /\ addr' = addrFromRVA(rva, sections, imageBase, ptrMod)
    /\ pc' = "resolved"
    /\ UNCHANGED <<sections, imageBase, ptrMod, rva>>
    /\ UNCHANGED <<demangleVars, imageVars, walkVars>>

NextResolver == FindRVASection \/ AddrFromRVA

SpecResolver == InitResolver /\ [][NextResolver]_vars

---------------------------------------------------------------------------
(* The demangler, called on its own                                        *)

InitDemangle ==
    /\ pc = "call"
    /\ mangledName \in MangledNames
    /\ baseNameOnly \in BOOLEAN
    /\ demangled = [status |-> "none", str |-> <<>>]
    /\ NoResolver
    /\ NoWalk

Demangle ==
    /\ pc = "call"
    /\ demangled' \in demangleOutcomes(mangledName, baseNameOnly)
    /\ pc' = "demangled"
    /\ UNCHANGED <<mangledName, baseNameOnly>>
    /\ UNCHANGED <<resolverVars, imageVars, walkVars>>

NextDemangle == Demangle

SpecDemangle == InitDemangle /\ [][NextDemangle]_vars


---------------------------------------------------------------------------
(* The images the walks are run on                                         *)

\* Where the drawn images keep their parts.  .idata lies at its file
\* offset, .text, .rdata and .edata do not; the RVAs of .rdata have the top
\* bit set.
Layout ==
    [idata |-> [virtualAddress |-> 4, virtualSize |-> 28, pointerToRawData |-> 4],
     text  |-> [virtualAddress |-> 40, virtualSize |-> 4, pointerToRawData |-> 32],
     rdata |-> [virtualAddress |-> HalfWord + 8, virtualSize |-> 2, pointerToRawData |-> 36],
     edata |-> [virtualAddress |-> 64, virtualSize |-> 32, pointerToRawData |-> 40],
     fileCells |-> 72]

\* The DOS header at offset 0: its bytes start with e_magic, e_lfanew is
\* the offset of the NT header.
DOSSignature == <<"M", "Z">>
NTSignature == <<"P", "E">>
DosHeader(magic) == [k |-> "str", s |-> magic, e_lfanew |-> 1]
NtHeader(signature) == [k |-> "ntHeader", signature |-> signature]

ImageSections == <<Layout.text, Layout.edata, Layout.idata, Layout.rdata>>

\* An RVA between the sections, and the RVA of the entry planted in .rdata.
UnmappedRVA == Layout.idata.virtualAddress + Layout.idata.virtualSize + 1
PoisonRVA == Layout.rdata.virtualAddress

\* The export directory and what it points to, one after the other.
ExportDirRVA == Layout.edata.virtualAddress
DllNameRVA == ExportDirRVA + 1
FunctionsRVA == ExportDirRVA + 2
NamesRVA == FunctionsRVA + MaxFuncs
OrdinalsRVA == NamesRVA + MaxNames
NameStringsRVA == OrdinalsRVA + MaxNames
ForwarderStringsRVA == NameStringsRVA + MaxNames
ExportDirEndRVA == ForwarderStringsRVA + MaxFuncs

\* An entry point of slot n: a gap, code, a forwarder string inside the
\* directory, or the address right after the directory.
EntryPointKinds == {"gap", "code", "forwarder", "end"}

EntryPoint(kind, n) ==
    CASE kind = "gap" -> 0
      [] kind = "code" -> Layout.text.virtualAddress + n
      [] kind = "forwarder" -> ForwarderStringsRVA + n
      [] OTHER -> ExportDirEndRVA

ExportName(j) ==
    CASE j = 0 -> <<"_">> \o Foo \o <<"@", "4">>
      [] j = 1 -> Foo
      [] j = 2 -> Bar
      [] OTHER -> <<"?", "B", "a", "z", "@", "@", "Y", "A", "X", "X", "Z">>

ForwarderName(n) == <<"N", "T", ".", "f">> \o hexDigits(n)

DllName == <<"x", ".", "d", "l", "l">>

\* The cell at an RVA of .edata, for the entry points and name ordinals drawn.
ExportCell(a, functions, ordinals) ==
    CASE a = ExportDirRVA ->
            [k |-> "exportDir", nameRVA |-> DllNameRVA, ordinalBase |-> 1,
             numberOfFunctions |-> MaxFuncs, numberOfNames |-> Len(ordinals),
             addressOfFunctions |-> FunctionsRVA, addressOfNames |-> NamesRVA,
             addressOfNameOrdinals |-> OrdinalsRVA]
      [] a = DllNameRVA -> Str(DllName)
      [] a >= FunctionsRVA /\ a < NamesRVA -> Num(functions[a - FunctionsRVA + 1])
      [] a >= NamesRVA /\ a < OrdinalsRVA -> Num(NameStringsRVA + (a - NamesRVA))
      [] a >= OrdinalsRVA /\ a < NameStringsRVA ->
            Num(IF a - OrdinalsRVA < Len(ordinals) THEN ordinals[a - OrdinalsRVA + 1] ELSE 0)
      [] a >= NameStringsRVA /\ a < ForwarderStringsRVA -> Str(ExportName(a - NameStringsRVA))
      [] a >= ForwarderStringsRVA /\ a < ExportDirEndRVA ->
            Str(ForwarderName(a - ForwarderStringsRVA))
      [] a = ExportDirEndRVA -> Str(<<"U", "V">>)
      [] OTHER -> Pad

InSection(off, sec) ==
    off >= sec.pointerToRawData /\ off < sec.pointerToRawData + sec.virtualSize

\* The file of an image with these exports.
ExportFile(functions, ordinals) ==
    [n \in 1 .. Layout.fileCells |->
        LET off == n - 1 IN
        IF off = 0 THEN DosHeader(DOSSignature)
        ELSE IF off = 1 THEN NtHeader(NTSignature)
        ELSE IF InSection(off, Layout.edata)
             THEN ExportCell(off - Layout.edata.pointerToRawData + Layout.edata.virtualAddress,
                             functions, ordinals)
             ELSE Pad]

ExportFunctionTables ==
    {[n \in 1 .. MaxFuncs |-> EntryPoint(kinds[n], n - 1)] :
        kinds \in [1 .. MaxFuncs -> EntryPointKinds]}

ExportOrdinalTables == UNION {[1 .. n -> 0 .. MaxFuncs - 1] : n \in 0 .. MaxNames}

CodeEntryPoints == [n \in 1 .. MaxFuncs |-> EntryPoint("code", n - 1)]

\* What the file holds, outside .edata, at the offsets that the RVAs of
\* .text give with the delta of .edata.
OtherString(j) == <<"k", "e", "r", "n", "e", "l">> \o hexDigits(j)

\* The same image with the name strings kept in .text: names[j] is an RVA
\* of .text and the string is at the file offset .text gives it.
ExportFileNamesInText(functions, ordinals) ==
    [n \in 1 .. Layout.fileCells |->
        LET off == n - 1
            a   == off - Layout.edata.pointerToRawData + Layout.edata.virtualAddress
            j   == off - Layout.text.pointerToRawData
            l   == off - (Layout.text.virtualAddress - sectionDelta(2))
        IN  IF InSection(off, Layout.edata) /\ a >= NamesRVA /\ a < OrdinalsRVA
            THEN Num(Layout.text.virtualAddress + (a - NamesRVA))
            ELSE IF InSection(off, Layout.text) /\ j < MaxNames THEN Str(ExportName(j))
            ELSE IF l >= 0 /\ l < MaxNames THEN Str(OtherString(l))
            ELSE ExportFile(functions, ordinals)[n]]

\* The optional header of an image whose export directory is there to list,
\* and the headers with no directories or with a directory in no section.
ExportHeader(count, start) ==
    [numberOfRvaAndSizes |-> count,
     dataDirectory |-> <<[virtualAddress |-> start,
                          sizeInBytes |-> ExportDirEndRVA - ExportDirRVA],
                         [virtualAddress |-> 0, sizeInBytes |-> 0]>>]

ListableHeader == ExportHeader(16, ExportDirRVA)

ExportHeaders ==
    {ListableHeader, ExportHeader(0, ExportDirRVA), ExportHeader(16, 0),
     ExportHeader(16, UnmappedRVA)}

InitExports ==
    /\ pc = "exports"
    /\ sections = ImageSections
    /\ imageBase = BufferAddress
    /\ ptrMod = WordMod * WordMod
    /\ rva = 0 /\ sectHeader = 0 /\ addr = 0
    /\ NoDemangle
    /\ prog = ProgramFlags(TRUE, FALSE)
    /\ \E h \in ExportHeaders, functions \in ExportFunctionTables,
          ordinals \in ExportOrdinalTables, inText \in BOOLEAN :
          /\ h = ListableHeader \/ ordinals = <<>>
          /\ inText => h = ListableHeader /\ functions = CodeEntryPoints
          /\ optionalHeader = h
          /\ file = IF inText THEN ExportFileNamesInText(functions, ordinals)
                    ELSE ExportFile(functions, ordinals)
    /\ iLoop = 0
    /\ funcNames = <<>>
    /\ thunk = 0 /\ thunkIAT = 0 /\ symbolsTotal = 0
    /\ out = <<>>
    /\ trace = <<>>

NextExports == ExportsBegin \/ ExportSlot \/ ExportsSortAndPrint

SpecExports == InitExports /\ [][NextExports]_vars

---------------------------------------------------------------------------
(* The images the import walk is run on                                    *)

\* The descriptors, what they point to, one after the other in .idata.
DescriptorsRVA == Layout.idata.virtualAddress
ModuleNamesRVA == DescriptorsRVA + MaxModules + 2
IntRVA == ModuleNamesRVA + MaxModules
IatRVA == IntRVA + MaxThunks + 2
ImportNamesRVA == IatRVA + MaxThunks + 2
ImportsEndRVA == ImportNamesRVA + MaxThunks

\* A descriptor of module n: complete, with one field set, or with a thunk
\* table in no section.
DescriptorKinds ==
    {"full", "onlyImpByName", "onlyStamp", "onlyChain", "onlyName", "onlyFirstThunk",
     "unmapped"}

Descriptor(kind, n) ==
    [k |-> "importDesc",
     impByNameRVA |-> CASE kind \in {"full", "onlyImpByName"} -> IntRVA
                        [] kind = "unmapped" -> UnmappedRVA
                        [] OTHER -> 0,
     timeDateStamp |-> IF kind = "onlyStamp" THEN 1 ELSE 0,
     forwarderChain |-> IF kind \in {"full", "onlyChain"} THEN WordMod - 1 ELSE 0,
     nameRVA |-> IF kind \in {"full", "onlyName", "unmapped"} THEN ModuleNamesRVA + n ELSE 0,
     firstThunkRVA |-> IF kind \in {"full", "onlyFirstThunk", "unmapped"} THEN IatRVA ELSE 0]

ThunkKinds == {"byName", "ordinal", "poison", "unmapped"}

\* The thunk n of a table: the RVA of an import-by-name entry, an ordinal
\* with the flag, the flagged RVA of the planted entry, or an RVA in no
\* section.
Thunk(kind, n) ==
    CASE kind = "byName" -> ImportNamesRVA + n
      [] kind = "ordinal" -> HalfWord + 3 + n
      [] kind = "poison" -> PoisonRVA
      [] OTHER -> UnmappedRVA

ModuleName(n) == <<"m">> \o hexDigits(n) \o <<".", "d", "l", "l">>

ImportName(n) ==
    CASE n = 0 -> <<"?">> \o Bar \o <<"@">> \o Widget \o <<"@", "@", "Q", "A", "E", "X", "X", "Z">>
      [] n = 1 -> <<"_">> \o Foo \o <<"@", "4">>
      [] OTHER -> Foo \o hexDigits(n)

ImportByName(hint, funcName) ==
    [k |-> "importByName", ordinalHint |-> hint, funcName |-> funcName]

Reversed(seq) == [n \in 1 .. Len(seq) |-> seq[Len(seq) + 1 - n]]

\* A thunk table in the file: the thunks, the zero that ends them, and
\* what is left of an older table after it.
ThunkCell(table, n) ==
    IF n < Len(table) THEN Num(table[n + 1])
    ELSE IF n = Len(table) THEN Num(0)
    ELSE Num(ImportNamesRVA)

\* The cell at an RVA of .idata, for the descriptors and thunks drawn.  The
\* name table holds the thunks, the address table holds them in reverse.
ImportCell(a, descriptors, thunks) ==
    CASE a >= DescriptorsRVA /\ a < ModuleNamesRVA ->
            (IF a - DescriptorsRVA < Len(descriptors) THEN descriptors[a - DescriptorsRVA + 1]
             ELSE IF a - DescriptorsRVA = Len(descriptors) THEN Descriptor("none", 0)
             ELSE Descriptor("full", 0))
      [] a >= ModuleNamesRVA /\ a < IntRVA -> Str(ModuleName(a - ModuleNamesRVA))
      [] a >= IntRVA /\ a < IatRVA -> ThunkCell(thunks, a - IntRVA)
      [] a >= IatRVA /\ a < ImportNamesRVA -> ThunkCell(Reversed(thunks), a - IatRVA)
      [] a >= ImportNamesRVA /\ a < ImportsEndRVA ->
            ImportByName(a - ImportNamesRVA + 1, ImportName(a - ImportNamesRVA))
      [] OTHER -> Pad

\* The file of an image with these imports.
ImportFile(descriptors, thunks) ==
    [n \in 1 .. Layout.fileCells |->
        LET off == n - 1 IN
        IF off = 0 THEN DosHeader(DOSSignature)
        ELSE IF off = 1 THEN NtHeader(NTSignature)
        ELSE IF InSection(off, Layout.idata)
             THEN ImportCell(off - Layout.idata.pointerToRawData + Layout.idata.virtualAddress,
                             descriptors, thunks)
        ELSE IF off = Layout.rdata.pointerToRawData
             THEN ImportByName(lowHalf(WordMod - 1),
                               <<"P", "O", "I", "S", "O", "N">>)
             ELSE Pad]

DescriptorTables ==
    {[n \in 1 .. Len(kinds) |-> Descriptor(kinds[n], n - 1)] :
        kinds \in UNION {[1 .. m -> DescriptorKinds] : m \in 0 .. MaxModules}}

\* The tables whose descriptors all lead to a thunk table.
ThunkedDescriptorTables ==
    {[n \in 1 .. Len(kinds) |-> Descriptor(kinds[n], n - 1)] :
        kinds \in UNION {[1 .. m -> {"full", "onlyFirstThunk"}] : m \in 1 .. MaxModules}}

ThunkTables ==
    {[n \in 1 .. Len(kinds) |-> Thunk(kinds[n], n - 1)] :
        kinds \in UNION {[1 .. m -> ThunkKinds] : m \in 0 .. MaxThunks}}

ReferenceThunks ==
    [n \in 1 .. MaxThunks |-> Thunk(IF n % 2 = 1 THEN "byName" ELSE "ordinal", n - 1)]

\* Every descriptor table with one thunk table, every thunk table with the
\* descriptor tables that lead to it.
ImportImages ==
    {ImportFile(descriptors, ReferenceThunks) : descriptors \in DescriptorTables}
    \cup {ImportFile(i[1], i[2]) : i \in ThunkedDescriptorTables \X ThunkTables}

InitImports ==
    /\ pc = "imports"
    /\ sections = ImageSections
    /\ imageBase = BufferAddress
    /\ ptrMod = WordMod * WordMod
    /\ rva = 0 /\ sectHeader = 0 /\ addr = 0
    /\ NoDemangle
    /\ prog = ProgramFlags(FALSE, TRUE)
    /\ \E start \in {DescriptorsRVA, 0} :
          optionalHeader =
             [numberOfRvaAndSizes |-> 16,
              dataDirectory |-> <<[virtualAddress |-> 0, sizeInBytes |-> 0],
                                  [virtualAddress |-> start,
                                   sizeInBytes |-> ModuleNamesRVA - DescriptorsRVA]>>]
    /\ file \in ImportImages
    /\ iLoop = 0
    /\ funcNames = <<>>
    /\ thunk = 0 /\ thunkIAT = 0 /\ symbolsTotal = 0
    /\ out = <<>>
    /\ trace = <<>>

NextImports == ImportsBegin \/ ListModule \/ NextModule \/ NextThunk

SpecImports == InitImports /\ [][NextImports]_vars

---------------------------------------------------------------------------
(* main                                                                    *)

\* Where main goes after the dumps that come before a walk.
afterValidation ==
    IF prog.flagDumpExportsSection THEN "exports"
    ELSE IF prog.flagDumpImportsSection THEN "imports"
    ELSE "mainEnd"

\* MainValidate without the check of the NT signature
MainValidateNtUnchecked ==
    /\ pc = "main"
    /\ LET dosHeader == cellAt(imageBase)
       IN  IF dosHeader.s # DOSSignature
           THEN /\ out' = <<[line |-> "Bad PE DOS signature!", stream |-> "cerr"],
                            [exit |-> "EXIT_FAILURE"]>>
                /\ trace' = <<[op |-> "dosHeader"]>>
                /\ pc' = "exit"
           ELSE /\ out' = <<[line |-> "File is a valid Windows Portable Executable!",
                             stream |-> "cout"]>>
                /\ trace' = <<[op |-> "dosHeader"]>>
                /\ pc' = afterValidation
    /\ UNCHANGED <<iLoop, funcNames, thunk, thunkIAT, symbolsTotal>>
    /\ UNCHANGED <<resolverVars, demangleVars, imageVars>>

\* From the load of the file to the first dump: the two signatures.
MainValidate ==
    /\ pc = "main"
    /\ LET dosHeader == cellAt(imageBase)
           ntHeader  == cellAt(Wrap(imageBase + dosHeader.e_lfanew, ptrMod))
       IN  IF dosHeader.s # DOSSignature
           THEN /\ out' = <<[line |-> "Bad PE DOS signature!", stream |-> "cerr"],
                            [exit |-> "EXIT_FAILURE"]>>
                /\ trace' = <<[op |-> "dosHeader"]>>
                /\ pc' = "exit"
           ELSE IF ntHeader.signature # NTSignature
           THEN /\ out' = <<[line |-> "Bad PE NT signature!", stream |-> "cerr"],
                            [exit |-> "EXIT_FAILURE"]>>
                /\ trace' = <<[op |-> "dosHeader"], [op |-> "ntHeader"]>>
                /\ pc' = "exit"
           ELSE /\ out' = <<[line |-> "File is a valid Windows Portable Executable!",
                             stream |-> "cout"]>>
                          \o (IF afterValidation = "mainEnd"
                              THEN <<[line |-> "Run again with -h or --help",
                                      stream |-> "cout"]>>
                              ELSE <<>>)
                /\ trace' = <<[op |-> "dosHeader"], [op |-> "ntHeader"]>>
                /\ pc' = afterValidation
    /\ UNCHANGED <<iLoop, funcNames, thunk, thunkIAT, symbolsTotal>>
    /\ UNCHANGED <<resolverVars, demangleVars, imageVars>>

\* a failed export walk ends the run
MainAfterExportsEndsOnFailure ==
    /\ pc = "exportsDone"
    /\ pc' = IF prog.flagDumpImportsSection /\ "count" \in DOMAIN out[Len(out)]
             THEN "imports" ELSE "mainEnd"
    /\ UNCHANGED <<resolverVars, demangleVars, imageVars, walkVars>>

\* dumpExportsSection has returned.
MainAfterExports ==
    /\ pc = "exportsDone"
    /\ pc' = IF prog.flagDumpImportsSection THEN "imports" ELSE "mainEnd"
    /\ UNCHANGED <<resolverVars, demangleVars, imageVars, walkVars>>

\* dumpImportsSection has returned.
MainAfterImports ==
    /\ pc = "importsDone"
    /\ pc' = "mainEnd"
    /\ UNCHANGED <<resolverVars, demangleVars, imageVars, walkVars>>

\* The end of main.
MainReturn ==
    /\ pc = "mainEnd"
    /\ out' = Append(out, [exit |-> "EXIT_SUCCESS"])
    /\ pc' = "exit"
    /\ UNCHANGED <<iLoop, funcNames, thunk, thunkIAT, symbolsTotal, trace>>
    /\ UNCHANGED <<resolverVars, demangleVars, imageVars>>

\* An image with exports and imports: .edata of the one, the rest of the other.
MainFile(functions, ordinals, descriptors, thunks) ==
    [n \in 1 .. Layout.fileCells |->
        IF InSection(n - 1, Layout.edata) THEN ExportFile(functions, ordinals)[n]
        ELSE ImportFile(descriptors, thunks)[n]]

\* The same file with other signatures.
WithSignatures(f, magic, signature) ==
    [n \in 1 .. Len(f) |->
        IF n = 1 THEN DosHeader(magic)
        ELSE IF n = 2 THEN NtHeader(signature)
        ELSE f[n]]

MainOrdinalTables == {<<>>, [n \in 1 .. MaxNames |-> n - 1]}

MainDescriptorTables ==
    {[n \in 1 .. Len(kinds) |-> Descriptor(kinds[n], n - 1)] :
        kinds \in UNION {[1 .. m -> {"full", "onlyName"}] : m \in 0 .. MaxModules}}

MainFiles ==
    {MainFile(CodeEntryPoints, ordinals, descriptors, ReferenceThunks) :
        ordinals \in MainOrdinalTables, descriptors \in MainDescriptorTables}

Signatures ==
    {<<DOSSignature, NTSignature>>, <<<<"Z", "M">>, NTSignature>>,
     <<DOSSignature, <<"N", "E">>>>, <<<<"Z", "M">>, <<"N", "E">>>>}

\* The directories of the optional header: each of the two is where the
\* file has it, or in no section.
MainHeader(exportsStart, importsStart) ==
    [numberOfRvaAndSizes |-> 16,
     dataDirectory |-> <<[virtualAddress |-> exportsStart,
                          sizeInBytes |-> ExportDirEndRVA - ExportDirRVA],
                         [virtualAddress |-> importsStart,
                          sizeInBytes |-> ModuleNamesRVA - DescriptorsRVA]>>]

InitMain ==
    /\ pc = "main"
    /\ sections = ImageSections
    /\ imageBase = BufferAddress
    /\ ptrMod = WordMod * WordMod
    /\ rva = 0 /\ sectHeader = 0 /\ addr = 0
    /\ NoDemangle
    /\ \E e \in BOOLEAN, i \in BOOLEAN : prog = ProgramFlags(e, i)
    /\ \E exportsStart \in {ExportDirRVA, UnmappedRVA}, importsStart \in {DescriptorsRVA, 0} :
          optionalHeader = MainHeader(exportsStart, importsStart)
    /\ \E f \in MainFiles, s \in Signatures :
          /\ s = <<DOSSignature, NTSignature>> \/ f = MainFile(CodeEntryPoints, <<>>, <<>>, ReferenceThunks)
          /\ file = WithSignatures(f, s[1], s[2])
    /\ iLoop = 0
    /\ funcNames = <<>>
    /\ thunk = 0 /\ thunkIAT = 0 /\ symbolsTotal = 0
    /\ out = <<>>
    /\ trace = <<>>

NextMain ==
    \/ MainValidate
    \/ ExportsBegin \/ ExportSlot \/ ExportsSortAndPrint
    \/ MainAfterExports
    \/ ImportsBegin \/ ListModule \/ NextModule \/ NextThunk
    \/ MainAfterImports
    \/ MainReturn

SpecMain == InitMain /\ [][NextMain]_vars

---------------------------------------------------------------------------
(* Claims about the resolver                                               *)

\* a lies in the section's range [virtualAddress, virtualAddress + virtualSize)
InSectionRange(a, sec) ==
    sec.virtualAddress <= a /\ a < sec.virtualAddress + sec.virtualSize

SectionsContaining(a) == {s \in 1 .. Len(sections) : InSectionRange(a, sections[s])}

FirstSectionContaining(a) ==
    CHOOSE s \in SectionsContaining(a) : \A t \in SectionsContaining(a) : s <= t

\* C1: whenever some section's range contains the address, addrFromRVA
\* returns imageBase + pointerToRawData + (a - virtualAddress) of the first
\* such section in table order.
C1_InsideSectionResolves ==
    (pc = "resolved" /\ SectionsContaining(rva) # {}) =>
        LET sec == sections[FirstSectionContaining(rva)] IN
        addr = Wrap(imageBase + sec.pointerToRawData + (rva - sec.virtualAddress), ptrMod)

\* C2: an address that lies in no section's range is not found:
\* findRVASection returns nullptr and addrFromRVA returns 0.
C2_OutsideEverySectionNotFound ==
    (SectionsContaining(rva) = {}) =>
        /\ pc = "found" => sectHeader = 0
        /\ pc = "resolved" => sectHeader = 0 /\ addr = 0

\* The address one past the end of a non-empty section, in no section.
C2_Witness ==
    /\ pc = "resolved"
    /\ SectionsContaining(rva) = {}
    /\ \E s \in 1 .. Len(sections) :
          /\ sections[s].virtualSize > 0
          /\ rva = sections[s].virtualAddress + sections[s].virtualSize
    /\ addr = 0

---------------------------------------------------------------------------
(* Claims about the demangler                                              *)

Returned == pc = "demangled" /\ demangled.status = "returned"

\* needle occurs in hay
Contains(hay, needle) ==
    \E i \in 1 .. (Len(hay) - Len(needle) + 1) :
        SubSeq(hay, i, i + Len(needle) - 1) = needle

\* The position of the first '@' of s at or after from, Len(s) + 1 if none.
FirstAt(s, from) ==
    LET ats == {i \in from .. Len(s) : s[i] = "@"} IN
    IF ats = {} THEN Len(s) + 1 ELSE CHOOSE i \in ats : \A j \in ats : i <= j

\* C3: demangle is total: every call returns a string, and the empty input
\* gives the empty string.
C3_DemangleTotal ==
    pc = "demangled" =>
        /\ demangled.status = "returned"
        /\ mangledName = <<>> => demangled.str = <<>>

\* C4: ?Bar@@QAEXXZ in non-base mode gives the name Bar with the calling
\* convention __thiscall and the return type void.
C4_BarThiscallVoid ==
    (/\ Returned
     /\ mangledName = <<"?">> \o Bar \o <<"@", "@", "Q", "A", "E", "X", "X", "Z">>
     /\ ~baseNameOnly) =>
        /\ Contains(demangled.str, Bar)
        /\ Contains(demangled.str, <<"_", "_", "t", "h", "i", "s", "c", "a", "l", "l">>)
        /\ Contains(demangled.str, <<"v", "o", "i", "d">>)

\* The parts of ??<d>Name@Class[@Namespace]...: where the function-name
\* segment and the class-name segment end.
FuncEnd(s) == FirstAt(s, 2)
ClassEnd(s) == FirstAt(s, FuncEnd(s) + 1)

IsSpecialInClass(s) ==
    /\ Len(s) >= 3
    /\ s[1] = "?" /\ s[2] = "?" /\ s[3] # "@"
    /\ FuncEnd(s) < Len(s)
    /\ s[FuncEnd(s) + 1] # "@"

SpecialCode(s) == s[3]
SpecialName(s) == SubSeq(s, 4, FuncEnd(s) - 1)
SpecialClass(s) == SubSeq(s, FuncEnd(s) + 1, ClassEnd(s) - 1)

\* The namespace qualifier: the segment after the class-name segment, when
\* one follows it, with its "::".
NamespaceQualifier(s, classEnd) ==
    IF classEnd < Len(s) /\ s[classEnd + 1] # "@"
    THEN SubSeq(s, classEnd + 1, FirstAt(s, classEnd + 1) - 1) \o <<":", ":">>
    ELSE <<>>

CStyleName(s) ==
    LET t == IF s[1] \in {"_", "@"} THEN Tail(s) ELSE s
    IN  SubSeq(t, 1, FirstAt(t, 1) - 1)

\* What follows the cut of a C-style name, replaced by x.
WithDecoration(s, x) ==
    LET skip == IF s[1] \in {"_", "@"} THEN 1 ELSE 0
    IN  SubSeq(s, 1, skip + Len(CStyleName(s))) \o <<"@">> \o x

Decorations == UNION {[1 .. n -> Alphabet] : n \in 0 .. 2}

---------------------------------------------------------------------------
(* Claims about the export walk                                            *)

\* The walk listed the directory and printed its rows.
ExportsListed ==
    /\ pc = "exportsDone"
    /\ out # <<>>
    /\ "count" \in DOMAIN out[Len(out)]

\* The records in the order the loops met them.
Encountered ==
    LET met == SelectSeq(trace, LAMBDA e : e.op = "emplace_back")
    IN  [n \in 1 .. Len(met) |-> met[n].fname]

\* The directory as the file gives it.
FunctionSlots == 0 .. exportDirectory(exportsDelta).numberOfFunctions - 1
NameSlots == 0 .. exportDirectory(exportsDelta).numberOfNames - 1
FunctionOf(n) == functionsAt(exportDirectory(exportsDelta), exportsDelta, n)
OrdinalOf(j) == ordinalsAt(exportDirectory(exportsDelta), exportsDelta, j)
NameOf(j) ==
    exportString(exportsDelta, namesAt(exportDirectory(exportsDelta), exportsDelta, j))

\* No entry point lies in [exportsStart, exportsEnd).
NoForwarderEntries ==
    \A n \in FunctionSlots :
        ~(/\ FunctionOf(n) >= exportsStartRVA
          /\ FunctionOf(n) < exportsStartRVA + optionalHeader.dataDirectory[1].sizeInBytes)

NamedPairs ==
    {p \in FunctionSlots \X NameSlots : FunctionOf(p[1]) # 0 /\ OrdinalOf(p[2]) = p[1]}

RowsOf(seq, p) ==
    {n \in 1 .. Len(seq) :
        /\ seq[n].mangled = NameOf(p[2])
        /\ seq[n].ord = toHexa(p[1], 3) \o <<" ">>}

\* C7: without forwarder entries the walk emits one record for every pair
\* (slot, name) whose name ordinal is the slot and whose slot is not a gap,
\* and no other record.
C7_OneRecordPerNamedPair ==
    (ExportsListed /\ NoForwarderEntries) =>
        /\ Len(funcNames) = Cardinality(NamedPairs)
        /\ \A p \in NamedPairs : Cardinality(RowsOf(funcNames, p)) = 1

\* a <= b for strings, character by character
LexLeq(a, b) ==
    \/ Len(a) <= Len(b) /\ SubSeq(b, 1, Len(a)) = a
    \/ \E n \in 1 .. Len(a) :
          /\ n <= Len(b)
          /\ SubSeq(a, 1, n - 1) = SubSeq(b, 1, n - 1)
          /\ charCode[a[n]] < charCode[b[n]]

Ascending(seq) ==
    \A m, n \in 1 .. Len(seq) : m < n => LexLeq(seq[m].demangled, seq[n].demangled)

Occurrences(seq, x) == Cardinality({n \in 1 .. Len(seq) : seq[n] = x})

SameRecords(a, b) ==
    /\ Len(a) = Len(b)
    /\ \A n \in 1 .. Len(a) : Occurrences(a, a[n]) = Occurrences(b, a[n])

WithName(seq, d) == SelectSeq(seq, LAMBDA r : r.demangled = d)

\* Records with equal decoded names are in the order they were met.
TiesInEncounterOrder(seq) ==
    \A n \in 1 .. Len(seq) :
        WithName(seq, seq[n].demangled) = WithName(Encountered, seq[n].demangled)

PrintedRows == SelectSeq(out, LAMBDA o : "row" \in DOMAIN o)

\* C8 as stated: the rows are in ascending order of decoded name and rows
\* with equal decoded names keep their encounter order.
C8_AscendingAndStable ==
    ExportsListed =>
        /\ Ascending(funcNames)
        /\ TiesInEncounterOrder(funcNames)

\* C8, amended: the rows printed are the records met, in ascending order of
\* decoded name; among records with equal decoded names no order is kept.
C8_AscendingByDecodedName ==
    ExportsListed =>
        /\ Ascending(funcNames)
        /\ SameRecords(funcNames, Encountered)
        /\ PrintedRows = [n \in 1 .. Len(funcNames) |-> [row |-> funcNames[n]]]

\* A listing whose records were met out of order and were rearranged.
C8_Witness ==
    /\ ExportsListed
    /\ Len(funcNames) >= 2
    /\ ~Ascending(Encountered)
    /\ Ascending(funcNames)
    /\ funcNames # Encountered

---------------------------------------------------------------------------
(* Claims about the import walk                                            *)

\* The import walk ran to its last line.
ImportsCompleted ==
    /\ pc = "importsDone"
    /\ out # <<>>
    /\ "dependencies" \in DOMAIN out[Len(out)]

\* The walk got past the lookup of the section of the directory.
ImportsListing ==
    \/ pc \in {"importModules", "importSymbols", "importThunks", "crashed"}
    \/ ImportsCompleted

\* The descriptor array as the file gives it: .idata lies at its file offset.
DescriptorSlots == 0 .. MaxModules + 1
DescriptorInFile(n) == file[DescriptorsRVA + n + 1]

DescriptorFields ==
    {"impByNameRVA", "timeDateStamp", "forwarderChain", "nameRVA", "firstThunkRVA"}

AllFieldsZero(d) == \A f \in DescriptorFields : d[f] = 0

\* The index of the first all-zero descriptor.
Sentinel ==
    CHOOSE n \in DescriptorSlots :
        /\ AllFieldsZero(DescriptorInFile(n))
        /\ \A m \in 0 .. n - 1 : ~AllFieldsZero(DescriptorInFile(m))

\* The indices of the descriptors read, in the order of the reads.
DescriptorReads ==
    LET reads == SelectSeq(trace, LAMBDA e : e.op = "importDesc")
    IN  [n \in 1 .. Len(reads) |-> reads[n].index]

UpTo(n) == [m \in 1 .. n + 1 |-> m - 1]

IsPrefix(a, b) == Len(a) <= Len(b) /\ SubSeq(b, 1, Len(a)) = a

\* C9: a descriptor is taken for the terminator exactly when its five fields
\* are zero; each of the two loops reads the descriptors in array order up to
\* the first all-zero one and none after it, and a walk that completes has
\* stopped there.
C9_StopsAtAllZeroDescriptor ==
    ImportsListing =>
        /\ \A n \in DescriptorSlots :
              isNullImportDescriptor(DescriptorInFile(n)) <=> AllFieldsZero(DescriptorInFile(n))
        /\ IsPrefix(DescriptorReads, UpTo(Sentinel) \o UpTo(Sentinel))
        /\ ImportsCompleted =>
              /\ DescriptorReads = UpTo(Sentinel) \o UpTo(Sentinel)
              /\ out[Len(out)].dependencies = Sentinel

\* A completed walk over two descriptors, one of them with a zero name field,
\* with a non-zero descriptor left after the terminator.
C9_Witness ==
    /\ ImportsCompleted
    /\ Sentinel = 2
    /\ \E n \in 0 .. 1 : DescriptorInFile(n).nameRVA = 0
    /\ ~AllFieldsZero(DescriptorInFile(Sentinel + 1))
    /\ out[Len(out)].dependencies = 2

\* Bit 31 of a 32-bit value.
TopBitSet(v) == v >= HalfWord

ThunkRecords == {trace[n] : n \in {m \in 1 .. Len(trace) : trace[m].op = "thunk"}}

\* C10: a thunk gets an ordinal-only row exactly when its top bit is set, and
\* then nothing is handed to addrFromRVA and nothing is read as an
\* import-by-name entry; any other thunk is handed to addrFromRVA.
C10_OrdinalFlagNeverDereferenced ==
    \A e \in ThunkRecords :
        /\ e.ordinalOnly <=> TopBitSet(e.value)
        /\ TopBitSet(e.value) =>
              /\ e.translated = {}
              /\ e.dereferenced = {}
              /\ e.row = [ord |-> toHexa(lowHalf(e.value), 4), name |-> Unknown]
        /\ ~TopBitSet(e.value) => e.translated = {e.value}

\* A completed walk that met the flagged RVA of the planted entry, and a
\* name thunk whose entry it read.
C10_Witness ==
    /\ ImportsCompleted
    /\ \E e \in ThunkRecords :
          /\ e.value = PoisonRVA
          /\ e.ordinalOnly
          /\ cellAt(addrFromRVA(e.value, sections, imageBase, ptrMod)).k = "importByName"
    /\ \E e \in ThunkRecords : ~e.ordinalOnly /\ e.dereferenced # {}

\* C11: a name thunk whose RVA lies in no section is skipped: nothing is read
\* through the address the resolver did not find, no row is printed for it
\* and the walk goes on.
C11_UnmappedNameThunkSkipped ==
    /\ pc # "crashed"
    /\ \A e \in ThunkRecords :
          (~TopBitSet(e.value) /\ SectionsContaining(e.value) = {}) =>
              /\ e.dereferenced = {}
              /\ [row |-> e.row] \notin {out[n] : n \in 1 .. Len(out)}

\* C12: with no data directories, or with an export directory in no
\* section, the export walk prints one diagnostic on the standard output,
\* keeps no record, reads no export structure and returns.
C12_NoExportsOneDiagnostic ==
    (/\ pc \notin {"exports"}
     /\ \/ optionalHeader.numberOfRvaAndSizes = 0
        \/ SectionsContaining(optionalHeader.dataDirectory[1].virtualAddress) = {}) =>
        /\ pc = "exportsDone"
        /\ Len(out) = 1
        /\ out[1].stream = "cout"
        /\ out[1].line \in {"Can't list exports! Number of RVAs is zero.", "No exports found."}
        /\ funcNames = <<>>
        /\ trace = <<>>

\* The walk has returned on an image whose header counts no directories but
\* whose first directory entry names a directory that is in the file.
C12_Witness ==
    /\ pc = "exportsDone"
    /\ optionalHeader.numberOfRvaAndSizes = 0
    /\ SectionsContaining(optionalHeader.dataDirectory[1].virtualAddress) # {}
    /\ file[Layout.edata.pointerToRawData + 1].k = "exportDir"
    /\ Len(out) = 1

\* C13: the ordinal of the record of a name that maps to function slot i is
\* ordinalBase + i.
C13_OrdinalBaseAdjusted ==
    ExportsListed =>
        \A p \in NamedPairs :
            \E n \in 1 .. Len(funcNames) :
                /\ funcNames[n].mangled = NameOf(p[2])
                /\ funcNames[n].ord =
                      toHexa(exportDirectory(exportsDelta).ordinalBase + p[1], 3) \o <<" ">>

\* The string at an RVA, at the file offset the section that contains the
\* RVA gives it.
StringInOwnSection(a) ==
    LET sec == sections[FirstSectionContaining(a)]
    IN  file[sec.pointerToRawData + (a - sec.virtualAddress) + 1].s

NameRVAOf(j) == namesAt(exportDirectory(exportsDelta), exportsDelta, j)

\* C14: an export name is read at the file offset its own section gives its
\* RVA, also when that is not the section of the directory.
C14_NamesReadInOwnSection ==
    ExportsListed =>
        \A p \in NamedPairs :
            \E n \in 1 .. Len(funcNames) :
                funcNames[n].mangled = truncate(StringInOwnSection(NameRVAOf(p[2])))

---------------------------------------------------------------------------
(* Claims about a run with both walks                                      *)

ExportsUnmapped == SectionsContaining(optionalHeader.dataDirectory[1].virtualAddress) = {}
ImportsUnmapped == SectionsContaining(optionalHeader.dataDirectory[2].virtualAddress) = {}

LinesOf(text) == {n \in 1 .. Len(out) : "line" \in DOMAIN out[n] /\ out[n].line = text}
TraceOps == {trace[n].op : n \in 1 .. Len(trace)}

\* main has returned, and had found the signatures of the file valid.
RunEnded ==
    /\ pc = "exit"
    /\ LinesOf("File is a valid Windows Portable Executable!") # {}

\* C15: a walk whose directory lies in no section prints one diagnostic,
\* lists nothing and reads nothing, and the run goes on: the other walk, if
\* asked for, is run to its end, and main returns success.
C15_FailureAbortsOnlyItsWalk ==
    /\ ExportsUnmapped =>
          /\ LinesOf("Listing exports from") = {}
          /\ TraceOps \cap {"exportDir", "emplace_back"} = {}
          /\ funcNames = <<>>
          /\ Cardinality(LinesOf("No exports found.")) <= 1
          /\ RunEnded =>
                /\ prog.flagDumpExportsSection =>
                      Cardinality(LinesOf("No exports found.")) = 1
                /\ (prog.flagDumpImportsSection /\ ~ImportsUnmapped) =>
                      \E n \in LinesOf("dependencies located and resolved") :
                          out[n].dependencies = Sentinel
                /\ out[Len(out)] = [exit |-> "EXIT_SUCCESS"]
    /\ ImportsUnmapped =>
          /\ LinesOf("Listing imports from") = {}
          /\ TraceOps \cap {"importDesc", "thunk", "endOfThunks"} = {}
          /\ symbolsTotal = 0
          /\ Cardinality(LinesOf("No imports found.")) <= 1
          /\ RunEnded =>
                /\ prog.flagDumpImportsSection =>
                      Cardinality(LinesOf("No imports found.")) = 1
                /\ (prog.flagDumpExportsSection /\ ~ExportsUnmapped) =>
                      \E n \in LinesOf("exports located and resolved.") :
                          out[n].count = Cardinality(NamedPairs)
                /\ out[Len(out)] = [exit |-> "EXIT_SUCCESS"]

\* A run with both walks asked for, the export directory in no section and
\* the import walk run to its end over two modules.
C15_Witness ==
    /\ RunEnded
    /\ prog = ProgramFlags(TRUE, TRUE)
    /\ ExportsUnmapped
    /\ ~ImportsUnmapped
    /\ LinesOf("No exports found.") # {}
    /\ \E n \in LinesOf("dependencies located and resolved") :
          out[n].dependencies = 2 /\ out[n].symbols >= 1

---------------------------------------------------------------------------
(* Claims about forwarders                                                 *)

\* exportsStart <= r < exportsStart + size
InDirectoryRange(r) ==
    /\ r >= optionalHeader.dataDirectory[1].virtualAddress
    /\ r < optionalHeader.dataDirectory[1].virtualAddress
             + optionalHeader.dataDirectory[1].sizeInBytes

Forwarder == <<"F", "W", "D", " ">>

\* The records the walk made for function slot n.
RecordsOfSlot(n) ==
    {trace[m].fname : m \in {l \in 1 .. Len(trace) :
                                trace[l].op = "emplace_back" /\ trace[l].slot = n}}

\* C16: a slot gets a forwarder record exactly when its entry point lies in
\* [exportsStart, exportsEnd); an entry point equal to exportsEnd gets none.
C16_ForwarderRangeHalfOpen ==
    ExportsListed =>
        \A n \in FunctionSlots :
            (\E r \in RecordsOfSlot(n) : r.ord = Forwarder) <=> InDirectoryRange(FunctionOf(n))

\* C17: a forwarder slot gets a record marked FWD and named by the string at
\* its entry point, and no record with a numeric ordinal.
C17_ForwarderInPlaceOfOrdinal ==
    ExportsListed =>
        \A n \in FunctionSlots :
            InDirectoryRange(FunctionOf(n)) =>
                /\ \E r \in RecordsOfSlot(n) :
                      /\ r.ord = Forwarder
                      /\ r.mangled = truncate(StringInOwnSection(FunctionOf(n)))
                /\ \A r \in RecordsOfSlot(n) : r.ord = Forwarder

NamesOfSlot(n) == {j \in NameSlots : OrdinalOf(j) = n}

\* C17, amended: a forwarder slot gets one record marked FWD and named by
\* the string at its entry point, next to one numeric-ordinal record for
\* each of its names.
C17_ForwarderNextToOrdinals ==
    ExportsListed =>
        \A n \in FunctionSlots :
            InDirectoryRange(FunctionOf(n)) =>
                /\ {r \in RecordsOfSlot(n) : r.ord = Forwarder}
                      = {[ord |-> Forwarder,
                          mangled |-> truncate(StringInOwnSection(FunctionOf(n))),
                          demangled |->
                              demangle(StringInOwnSection(FunctionOf(n)), TRUE).str]}
                /\ {r.mangled : r \in {q \in RecordsOfSlot(n) : q.ord # Forwarder}}
                      = {NameOf(j) : j \in NamesOfSlot(n)}

\* A listing with a forwarder slot that has a name: both records are there.
C17_Witness ==
    /\ ExportsListed
    /\ \E n \in FunctionSlots :
          /\ InDirectoryRange(FunctionOf(n))
          /\ NamesOfSlot(n) # {}
          /\ \E r \in RecordsOfSlot(n) : r.ord = Forwarder
          /\ \E r \in RecordsOfSlot(n) : r.ord # Forwarder
          /\ \E r \in {funcNames[m] : m \in 1 .. Len(funcNames)} : r.ord = Forwarder

---------------------------------------------------------------------------
(* Claims about the modules and thunks of the import walk                  *)

\* The places of the trace where the second loop took up a module.
ModulePlaces == {m \in 1 .. Len(trace) : trace[m].op = "module"}

\* The address, in the buffer, of the RVA a: at the file offset that the
\* first section that contains a gives it.
AddressOfRVA(a) ==
    LET sec == sections[FirstSectionContaining(a)]
    IN  imageBase + sec.pointerToRawData + (a - sec.virtualAddress)

BothTablesZero(d) == d.impByNameRVA = 0 /\ d.firstThunkRVA = 0

ThunkInFile(p) == file[p - imageBase + 1].v

\* The number of thunks from p to the first zero-valued one.
ThunksFrom(p) ==
    CHOOSE k \in 0 .. MaxThunks + 1 :
        /\ ThunkInFile(p + k) = 0
        /\ \A l \in 0 .. k - 1 : ThunkInFile(p + l) # 0

RowsPrinted == {n \in 1 .. Len(out) : "row" \in DOMAIN out[n]}
ThunkPlaces == {n \in 1 .. Len(trace) : trace[n].op = "thunk"}

\* C19: the thunks of a module are read in array order from the first one
\* to the first zero-valued one and none after it, each non-zero thunk gets
\* one row, and the walk is not stopped on the way.
C19_ThunksInOrderToFirstZero ==
    /\ pc # "crashed"
    /\ Cardinality(RowsPrinted) = Cardinality(ThunkPlaces)
    /\ \A m \in ModulePlaces :
          SectionsContaining(trace[m].source) # {} =>
              LET start == AddressOfRVA(trace[m].source)
                  count == ThunksFrom(start)
              IN  /\ \A k \in 0 .. count :
                        m + 1 + k <= Len(trace) =>
                            IF k < count
                            THEN /\ trace[m + 1 + k].op = "thunk"
                                 /\ trace[m + 1 + k].at = start + k
                                 /\ trace[m + 1 + k].value = ThunkInFile(start + k)
                            ELSE trace[m + 1 + k] = [op |-> "endOfThunks", at |-> start + k]
                  /\ m + 2 + count <= Len(trace) => trace[m + 2 + count].op = "importDesc"

\* The rows the import walk printed, one for a thunk.
ThunkRows ==
    {n \in 1 .. Len(out) : "row" \in DOMAIN out[n] /\ "mangled" \notin DOMAIN out[n].row}

\* C20: in the second loop the symbol counter is the number of thunk rows
\* printed so far, a module that is taken up finds it at the number of
\* thunks recorded before, and the last line reports the number of
\* descriptors before the terminator and the number of thunk rows.
C20_CountersMatchRecords ==
    /\ pc \in {"importSymbols", "importThunks", "importsDone", "crashed"} =>
          symbolsTotal = Cardinality(ThunkRows)
    /\ \A m \in ModulePlaces :
          trace[m].symbols = Cardinality({n \in ThunkPlaces : n < m})
    /\ ImportsCompleted =>
          /\ out[Len(out)].dependencies = Sentinel
          /\ out[Len(out)].symbols = Cardinality(ThunkRows)
          /\ out[Len(out)].symbols = Cardinality(ThunkPlaces)

\* A completed walk over two modules, one of them skipped, with an
\* ordinal-only row and a named row.
C20_Witness ==
    /\ ImportsCompleted
    /\ out[Len(out)].dependencies = 2
    /\ out[Len(out)].symbols = 2
    /\ \E m \in ModulePlaces : BothTablesZero(DescriptorInFile(trace[m].index))
    /\ \E n \in ThunkPlaces : trace[n].ordinalOnly
    /\ \E n \in ThunkPlaces : ~trace[n].ordinalOnly

---------------------------------------------------------------------------
(* Claims about the validation of the file                                 *)

DosValid == cellAt(imageBase).s = DOSSignature
NtValid ==
    cellAt(Wrap(imageBase + cellAt(imageBase).e_lfanew, ptrMod)).signature = NTSignature

WalkOps == {"exportDir", "emplace_back", "importDesc", "module", "thunk", "endOfThunks"}

\* C21: no walk starts unless the DOS signature and then the NT signature
\* were found valid; the NT header is read only after the DOS signature
\* passed, and a file that fails a check gets its diagnostic and no walk.
C21_WalksOnlyAfterValidation ==
    /\ pc = "main" => out = <<>> /\ trace = <<>>
    /\ "ntHeader" \in TraceOps => DosValid
    /\ (\/ pc \notin {"main", "exit"}
        \/ TraceOps \cap WalkOps # {}
        \/ funcNames # <<>>
        \/ symbolsTotal # 0) => DosValid /\ NtValid
    /\ (pc # "main" /\ ~(DosValid /\ NtValid)) =>
          /\ pc = "exit"
          /\ out = <<[line |-> IF DosValid THEN "Bad PE NT signature!"
                               ELSE "Bad PE DOS signature!",
                      stream |-> "cerr"],
                     [exit |-> "EXIT_FAILURE"]>>
          /\ trace = IF DosValid THEN <<[op |-> "dosHeader"], [op |-> "ntHeader"]>>
                     ELSE <<[op |-> "dosHeader"]>>

\* A file with the DOS signature and a wrong NT signature, both walks asked
\* for: the run ended at the NT diagnostic.
C21_Witness ==
    /\ pc = "exit"
    /\ prog = ProgramFlags(TRUE, TRUE)
    /\ DosValid /\ ~NtValid
    /\ out[1].line = "Bad PE NT signature!"
    /\ out[Len(out)] = [exit |-> "EXIT_FAILURE"]

---------------------------------------------------------------------------
(* Claims about the assembly of a decoded name                             *)

\* The segments of ?func[@class[@namespace]]...: a segment ends at an '@',
\* and a segment follows another when the '@' after it is not followed by
\* a second '@' or by the end of the name.
FuncSegment(s) == SubSeq(s, 2, FuncEnd(s) - 1)
HasClass(s) == FuncEnd(s) < Len(s) /\ s[FuncEnd(s) + 1] # "@"
ClassSegment(s) == IF HasClass(s) THEN SubSeq(s, FuncEnd(s) + 1, ClassEnd(s) - 1) ELSE <<>>
HasNamespace(s) == HasClass(s) /\ ClassEnd(s) < Len(s) /\ s[ClassEnd(s) + 1] # "@"
NamespaceSegment(s) ==
    IF HasNamespace(s)
    THEN SubSeq(s, ClassEnd(s) + 1, FirstAt(s, ClassEnd(s) + 1) - 1)
    ELSE <<>>

IsDecorated(s) == s # <<>> /\ s[1] = "?"
IsSpecial(s) == IsDecorated(s) /\ Len(FuncSegment(s)) >= 2 /\ FuncSegment(s)[1] = "?"
IsOrdinary(s) == IsDecorated(s) /\ ~IsSpecial(s)

\* A class-name segment as it is displayed: ?$Name as Name<T>.
ClassDisplay(c) ==
    IF Len(c) >= 2 /\ c[1] = "?" /\ c[2] = "$"
    THEN SubSeq(c, 3, Len(c)) \o <<"<", "T", ">">>
    ELSE c

\* Prefix:: or nothing
Qualifier(prefix) == IF prefix = <<>> THEN <<>> ELSE prefix \o <<":", ":">>

\* [Class::]Name()
ClassAndName(s) ==
    Qualifier(ClassDisplay(ClassSegment(s))) \o FuncSegment(s) \o <<"(", ")">>

Codes == Letters \cup {"0", "1", "2", "3", "4", "5", "6", "7", "8", "9", "@", "_", "$", "?"}

\* The texts a resolved code contributes, each with its separating blank,
\* and the empty text of a code that did not resolve.
RetTypeTexts == {<<>>} \cup {getTypeName(c) \o <<" ">> : c \in {d \in Codes : getTypeName(d) # <<>>}}
CallConvTexts == {<<>>} \cup {getCallConv(c) \o <<" ">> : c \in {d \in Codes : getCallConv(d) # <<>>}}

\* C22: in non-base mode an ordinary name is rendered as its return type,
\* if resolved, its calling convention, if resolved, and then
\* Namespace::Class::Name(): with a namespace segment the two precede the
\* namespace qualifier.
C22_ReturnTypeAndConventionFirst ==
    (Returned /\ ~baseNameOnly /\ IsOrdinary(mangledName)) =>
        \E r \in RetTypeTexts, c \in CallConvTexts :
            demangled.str = r \o c \o Qualifier(NamespaceSegment(mangledName))
                              \o ClassAndName(mangledName)

StartsWith(str, head) == Len(head) <= Len(str) /\ SubSeq(str, 1, Len(head)) = head
EndsWith(str, tail) ==
    Len(tail) <= Len(str) /\ SubSeq(str, Len(str) - Len(tail) + 1, Len(str)) = tail

IsTemplate(c) == Len(c) >= 2 /\ c[1] = "?" /\ c[2] = "$"

\* C23: a class-name segment that starts with ?$ is displayed without the
\* marker and followed by <T>, for an ordinary member (the output ends with
\* Class<T>::Name()) and for a special member (Class<T>:: follows the
\* namespace qualifier).
C23_TemplateClassGeneric ==
    (/\ Returned
     /\ IsDecorated(mangledName)
     /\ HasClass(mangledName)
     /\ IsTemplate(ClassSegment(mangledName))) =>
        LET class == SubSeq(ClassSegment(mangledName), 3, Len(ClassSegment(mangledName)))
                     \o <<"<", "T", ">", ":", ":">>
        IN  IF IsSpecial(mangledName)
            THEN StartsWith(demangled.str,
                            Qualifier(NamespaceSegment(mangledName)) \o class)
            ELSE EndsWith(demangled.str, class \o FuncSegment(mangledName) \o <<"(", ")">>)

---------------------------------------------------------------------------
(* Claims about special members                                            *)

Digits == {"0", "1", "2", "3", "4", "5", "6", "7", "8", "9"}

\* The code and the name of a special-member segment ?<c>Name
MemberCode(s) == FuncSegment(s)[2]
MemberName(s) == SubSeq(FuncSegment(s), 3, Len(FuncSegment(s)))

\* name from its first character of keep on, empty if it has none
FromFirst(name, keep) ==
    LET at == {i \in 1 .. Len(name) : name[i] \in keep} IN
    IF at = {} THEN <<>>
    ELSE SubSeq(name, CHOOSE i \in at : \A j \in at : i <= j, Len(name))

Unimplemented(s) == IsSpecial(s) /\ MemberCode(s) \notin {"0", "1", "4"}

\* [Namespace::]Class::T::???
UnimplementedAs(s, t) ==
    Qualifier(NamespaceSegment(s)) \o ClassSegment(s) \o <<":", ":">> \o t
    \o <<":", ":", "?", "?", "?">>

C25_PlausibleSignature ==
    (Returned /\ mangledName # <<>>) =>
        /\ \/ EndsWith(demangled.str, <<"(", ")">>)
           \/ EndsWith(demangled.str, <<":", ":", "?", "?", "?">>)
        /\ ~StartsWith(demangled.str, <<":", ":">>)

---------------------------------------------------------------------------
(* Claims about the reads of the decoder                                   *)

\* C26: a call of demangle reads no character at or beyond the end of the
\* name: the end iterator is never dereferenced.
C26_NoReadAtOrBeyondEnd ==
    pc = "demangled" =>
        /\ ~demangle(mangledName, baseNameOnly).endRead
        /\ demangled.status # "trapped"

---------------------------------------------------------------------------
(* Claims about special members outside a class segment                    *)

\* Name(), ~Name() or operator=() for the codes 0, 1 and 4
MemberText(code, name) ==
    CASE code = "0" -> name \o <<"(", ")">>
      [] code = "1" -> <<"~">> \o name \o <<"(", ")">>
      [] code = "4" -> <<"o", "p", "e", "r", "a", "t", "o", "r", "=", "(", ")">>

\* C27: a special member with code 0, 1 or 4 and no class-name segment is
\* rendered Name::Name(), Name::~Name() or Name::operator=(), without a
\* class qualifier.
C27_SpecialWithoutClass ==
    (/\ pc = "demangled"
     /\ IsSpecial(mangledName)
     /\ MemberCode(mangledName) \in {"0", "1", "4"}
     /\ ~HasClass(mangledName)) =>
        /\ demangled.status = "returned"
        /\ demangled.str = MemberName(mangledName) \o <<":", ":">>
                           \o MemberText(MemberCode(mangledName), MemberName(mangledName))

\* ??0Widget@@... gave Widget::Widget()
C27_Witness ==
    /\ Returned
    /\ IsSpecial(mangledName)
    /\ ~HasClass(mangledName)
    /\ FuncEnd(mangledName) + 1 <= Len(mangledName)
    /\ MemberCode(mangledName) = "0"
    /\ MemberName(mangledName) = Widget
    /\ demangled.str = Widget \o <<":", ":">> \o Widget \o <<"(", ")">>

---------------------------------------------------------------------------
(* Claims about the two modes                                              *)

\* C28: the output for a name that does not start with '?' and for a
\* special member is the same in both modes; for an ordinary decorated name
\* the base mode gives [Namespace::][Class::]Name() and nothing else.
C28_BaseNameOnly ==
    pc = "demangled" =>
        /\ (~IsDecorated(mangledName) \/ IsSpecial(mangledName)) =>
              /\ demangled.status = "returned"
              /\ demangled.str = demangle(mangledName, ~baseNameOnly).str
              /\ ~demangle(mangledName, ~baseNameOnly).endRead
        /\ (IsOrdinary(mangledName) /\ baseNameOnly) =>
              /\ demangled.status = "returned"
              /\ demangled.str = Qualifier(NamespaceSegment(mangledName))
                                 \o ClassAndName(mangledName)

\* ?Bar@Widget@@QAEXXZ gave Widget::Bar() in base mode, and gives a longer
\* text in the other mode.
C28_Witness ==
    /\ Returned
    /\ baseNameOnly
    /\ mangledName = <<"?">> \o Bar \o <<"@">> \o Widget
                     \o <<"@", "@", "Q", "A", "E", "X", "X", "Z">>
    /\ demangled.str = Widget \o <<":", ":">> \o Bar \o <<"(", ")">>
    /\ demangle(mangledName, FALSE).str # demangled.str

=============================================================================
